---- MODULE Spec2Model ----
(***************************************************************************)
(* Model of the template-filling plugin (App component, v2.4):             *)
(*   - the placeholder resolver findValue and the per-node text patcher   *)
(*     (pure functions over character sequences),                          *)
(*   - the generation run generateAndExport, one action per resumption    *)
(*     point (await / callback), against a host store that may answer,    *)
(*     answer without effect, or reject.                                   *)
(* Text is a sequence of one-character strings.                            *)
(***************************************************************************)
EXTENDS Integers, Sequences, FiniteSets, TLC

(***************************************************************************)
(* Bounds of the model.                                                    *)
(***************************************************************************)
\* total number of characters of the text nodes of a template
MaxLen == 6
\* number of entries of a record map handed to the resolver
MaxFields == 2
\* number of generation runs started
MaxRuns == 2
\* items of a list value given to formatCellValue alone
MaxItems == 2

(***************************************************************************)
(* Characters.                                                             *)
(***************************************************************************)
OB == "{"
CB == "}"
SP == " "
\* a CJK ideograph in U+4E00..U+9FA5 (the module text is ASCII)
CJK == "U59D3"
\* a symbol outside [a-zA-Z0-9] and outside the CJK range (emoji, '=', ...)
SYM == "#"

IsBrace(c) == c \in {OB, CB}

\* String.prototype.toLowerCase on the model's alphabet
ToLowerChar(c) == IF c = "A" THEN "a" ELSE IF c = "B" THEN "b" ELSE c

\* the class [a-zA-Z0-9一-龥]
IsWordChar(c) == c \in {"a", "b", "A", "B", "1", CJK}

\* whitespace as String.prototype.trim sees it
IsSpace(c) == c = SP

(***************************************************************************)
(* String.prototype.trim                                                   *)
(***************************************************************************)
RECURSIVE TrimLeft(_)
TrimLeft(s) ==
    IF s # <<>> /\ IsSpace(Head(s)) THEN TrimLeft(Tail(s)) ELSE s

RECURSIVE TrimRight(_)
TrimRight(s) ==
    IF s # <<>> /\ IsSpace(s[Len(s)])
    THEN TrimRight(SubSeq(s, 1, Len(s) - 1))
    ELSE s

Trim(s) == TrimRight(TrimLeft(s))

(***************************************************************************)
(* normalize: str.replace(/[^a-zA-Z0-9一-龥]/g, '').toLowerCase()  *)
(***************************************************************************)
RECURSIVE StripNonWord(_)
StripNonWord(s) ==
    IF s = <<>> THEN <<>>
    ELSE IF IsWordChar(Head(s))
         THEN <<Head(s)>> \o StripNonWord(Tail(s))
         ELSE StripNonWord(Tail(s))

ToLowerCase(s) == [i \in 1..Len(s) |-> ToLowerChar(s[i])]

normalize(s) == ToLowerCase(StripNonWord(s))

(***************************************************************************)
(* The record map recordData: a sequence of [key, val] entries in the      *)
(* order Object.keys enumerates them, keys pairwise different.             *)
(***************************************************************************)
Found(v) == [found |-> TRUE, val |-> v]
Undefined == [found |-> FALSE, val |-> <<>>]

KeyIndexes(rd, k) == {i \in 1..Len(rd) : rd[i].key = k}

\* recordData[k]
Lookup(rd, k) ==
    IF KeyIndexes(rd, k) = {} THEN Undefined
    ELSE Found(rd[CHOOSE i \in KeyIndexes(rd, k) : TRUE].val)

FuzzyIndexes(rd, k) == {i \in 1..Len(rd) : normalize(rd[i].key) = normalize(k)}

\* Object.keys(recordData).find(key => normalize(key) === normalizedK)
FindKeyIndex(rd, k) ==
    IF FuzzyIndexes(rd, k) = {} THEN 0
    ELSE CHOOSE i \in FuzzyIndexes(rd, k) : \A j \in FuzzyIndexes(rd, k) : i <= j

\* findValue with the exact stage after the fuzzy stage
findValueFuzzyFirst(k, rd) ==
    LET f == FindKeyIndex(rd, k)
    IN  IF f # 0 /\ rd[f].key # <<>> THEN Found(rd[f].val) ELSE Lookup(rd, k)

\* findValue: exact match, then the first key with the same normalized form;
\* `if (foundKey)` is false for the empty key
findValue(k, rd) ==
    IF Lookup(rd, k).found THEN Lookup(rd, k)
    ELSE LET f == FindKeyIndex(rd, k)
         IN  IF f # 0 /\ rd[f].key # <<>> THEN Found(rd[f].val) ELSE Undefined

(***************************************************************************)
(* The token grammar /\{+([^{}]+)\}+/g on one node's text.                 *)
(* All three quantifiers are greedy.  Giving back a character never helps: *)
(* a "{" handed back by \{+ would have to match [^{}], a key character     *)
(* handed back by [^{}]+ would have to match \}, so a match at p exists    *)
(* exactly when the maximal runs line up.                                  *)
(***************************************************************************)
InClass(c, class) ==
    CASE class = "open"  -> c = OB
      [] class = "close" -> c = CB
      [] OTHER           -> ~IsBrace(c)

\* last index of the maximal run of `class` characters starting at p
\* (p - 1 when text[p] is not of the class)
RECURSIVE RunEnd(_, _, _)
RunEnd(text, p, class) ==
    IF p <= Len(text) /\ InClass(text[p], class)
    THEN RunEnd(text, p + 1, class)
    ELSE p - 1

NoMatch == [ok |-> FALSE, keyFrom |-> 0, keyTo |-> 0, to |-> 0]

\* the grammar with one closing brace: /\{+([^{}]+)\}/
MatchAtOneClose(text, p) ==
    LET o == RunEnd(text, p, "open")
        k == RunEnd(text, o + 1, "key")
        c == RunEnd(text, k + 1, "close")
    IN  IF o >= p /\ k >= o + 1 /\ c >= k + 1
        THEN [ok |-> TRUE, keyFrom |-> o + 1, keyTo |-> k, to |-> k + 1]
        ELSE NoMatch

\* the grammar with the opening brace run optional: /\{*([^{}]+)\}+/
MatchAtOptionalOpen(text, p) ==
    LET o == RunEnd(text, p, "open")
        k == RunEnd(text, o + 1, "key")
        c == RunEnd(text, k + 1, "close")
    IN  IF p <= Len(text) /\ k >= o + 1 /\ c >= k + 1
        THEN [ok |-> TRUE, keyFrom |-> o + 1, keyTo |-> k, to |-> c]
        ELSE NoMatch

\* the regex anchored at position p: the span p..to, the key keyFrom..keyTo
MatchAt(text, p) ==
    LET o == RunEnd(text, p, "open")
        k == RunEnd(text, o + 1, "key")
        c == RunEnd(text, k + 1, "close")
    IN  IF o >= p /\ k >= o + 1 /\ c >= k + 1
        THEN [ok |-> TRUE, keyFrom |-> o + 1, keyTo |-> k, to |-> c]
        ELSE NoMatch

\* text.match(regex): some position starts a match
HasMatch(text) == \E p \in 1..Len(text) : MatchAt(text, p).ok

(***************************************************************************)
(* The replace callback: key.trim(), findValue, String(val) or the match.  *)
(* The values of the record map are the texts String(val) gives.           *)
(***************************************************************************)
Resolve(rawKey, rd) == findValue(Trim(rawKey), rd)

\* replace giving up at the first key that does not resolve: the rest of the
\* node is copied
RECURSIVE ReplaceFromStopOnMiss(_, _, _)
ReplaceFromStopOnMiss(text, p, rd) ==
    IF p > Len(text) THEN [text |-> <<>>, warns |-> <<>>, replaced |-> 0]
    ELSE LET m == MatchAt(text, p)
         IN  IF m.ok
             THEN LET key  == SubSeq(text, m.keyFrom, m.keyTo)
                      v    == Resolve(key, rd)
                      rest == ReplaceFromStopOnMiss(text, m.to + 1, rd)
                  IN  IF v.found
                      THEN [text     |-> v.val \o rest.text,
                            warns    |-> rest.warns,
                            replaced |-> rest.replaced + 1]
                      ELSE [text     |-> SubSeq(text, p, Len(text)),
                            warns    |-> <<Trim(key)>>,
                            replaced |-> 0]
             ELSE LET rest == ReplaceFromStopOnMiss(text, p + 1, rd)
                  IN  [rest EXCEPT !.text = <<text[p]>> \o rest.text]

\* text.replace(regex, callback) from position p on: the new text, the keys
\* reported by console.warn, and the increments of replacedCount
RECURSIVE ReplaceFrom(_, _, _)
ReplaceFrom(text, p, rd) ==
    IF p > Len(text) THEN [text |-> <<>>, warns |-> <<>>, replaced |-> 0]
    ELSE LET m == MatchAt(text, p)
         IN  IF m.ok
             THEN LET key  == SubSeq(text, m.keyFrom, m.keyTo)
                      v    == Resolve(key, rd)
                      rest == ReplaceFrom(text, m.to + 1, rd)
                  IN  IF v.found
                      THEN [text     |-> v.val \o rest.text,
                            warns    |-> rest.warns,
                            replaced |-> rest.replaced + 1]
                      ELSE [text     |-> SubSeq(text, p, m.to) \o rest.text,
                            warns    |-> <<Trim(key)>> \o rest.warns,
                            replaced |-> rest.replaced]
             ELSE LET rest == ReplaceFrom(text, p + 1, rd)
                  IN  [rest EXCEPT !.text = <<text[p]>> \o rest.text]

\* the replacement applied again to its own result
PatchNodeTwice(text, rd) ==
    IF HasMatch(text)
    THEN LET once == ReplaceFrom(text, 1, rd)
             again == ReplaceFrom(once.text, 1, rd)
         IN  [text     |-> again.text,
              warns    |-> once.warns \o again.warns,
              replaced |-> once.replaced + again.replaced]
    ELSE [text |-> text, warns |-> <<>>, replaced |-> 0]

\* one iteration of the loop over the w:t nodes
PatchNode(text, rd) ==
    IF HasMatch(text) THEN ReplaceFrom(text, 1, rd)
    ELSE [text |-> text, warns |-> <<>>, replaced |-> 0]

\* the loop over texts[i], i = 0 .. texts.length - 1
RECURSIVE PatchNodes(_, _)
PatchNodes(nodes, rd) ==
    IF nodes = <<>> THEN [nodes |-> <<>>, warns |-> <<>>, replaced |-> 0]
    ELSE LET h == PatchNode(Head(nodes), rd)
             t == PatchNodes(Tail(nodes), rd)
         IN  [nodes    |-> <<h.text>> \o t.nodes,
              warns    |-> h.warns \o t.warns,
              replaced |-> h.replaced + t.replaced]

(***************************************************************************)
(* Field values of the host store and formatCellValue.                     *)
(* A JavaScript value is null, undefined, a string, a number, a boolean, a *)
(* list of items or an object.  A string is its characters; a number is a  *)
(* non-negative integer, kept as the digits String(num) gives, so that     *)
(* the 12 and 13 digit numbers of isTimestamp keep their width.  An object *)
(* carries `token` (0: no token property) and the properties name, text,   *)
(* fullAddress and value (undefined: no such property).                    *)
(***************************************************************************)
NullVal == [kind |-> "null", str |-> <<>>, items |-> <<>>]
UndefinedVal == [kind |-> "undefined", str |-> <<>>, items |-> <<>>]
StrVal(s) == [kind |-> "string", str |-> s, items |-> <<>>]
NumVal(d) == [kind |-> "number", str |-> d, items |-> <<>>]
BoolVal(b) ==
    [kind |-> "boolean",
     str |-> IF b THEN <<"t", "r", "u", "e">> ELSE <<"f", "a", "l", "s", "e">>,
     items |-> <<>>]
ListVal(l) == [kind |-> "list", str |-> <<>>, items |-> l]
ObjVal(t, n, x, fa, v) ==
    [kind |-> "object", token |-> t, name |-> n, text |-> x, fullAddress |-> fa,
     value |-> v]

NullItem == [kind |-> "null", token |-> 0, name |-> <<>>]
Attachment(t, n) ==
    ObjVal(t, IF n = <<>> THEN UndefinedVal ELSE StrVal(n), UndefinedVal,
           UndefinedVal, UndefinedVal)

Digits == <<"0", "1", "2", "3", "4", "5", "6", "7", "8", "9">>
IsDigit(c) == \E i \in 1..Len(Digits) : Digits[i] = c
DigitValue(c) == CHOOSE i \in 1..Len(Digits) : Digits[i] = c

\* a > b for two numbers given by their digits without leading zeros
GreaterDigits(a, b) ==
    \/ Len(a) > Len(b)
    \/ /\ Len(a) = Len(b)
       /\ \E i \in 1..Len(a) :
             /\ \A j \in 1..(i - 1) : a[j] = b[j]
             /\ DigitValue(a[i]) > DigitValue(b[i])

RECURSIVE StripZeros(_)
StripZeros(d) ==
    IF Len(d) > 1 /\ Head(d) = "0" THEN StripZeros(Tail(d)) ELSE d

\* truthiness, as `||` and `&&` test it
Truthy(v) ==
    CASE v.kind \in {"null", "undefined"} -> FALSE
      [] v.kind = "string"  -> v.str # <<>>
      [] v.kind = "number"  -> v.str # <<"0">>
      [] v.kind = "boolean" -> v = BoolVal(TRUE)
      [] OTHER -> TRUE

\* JSON.stringify of an object or String(object): not a numeric literal
JsonDump == <<"J">>
ObjectString == <<"[", "o", "]">>

\* String(v) of a value that is not a list
ScalarString(v) ==
    CASE v.kind = "null"      -> <<"n", "u", "l", "l">>
      [] v.kind = "undefined" -> <<"u", "n", "d", "e", "f", "i", "n", "e", "d">>
      [] v.kind = "object"    -> ObjectString
      [] OTHER -> v.str

\* Array.prototype.join(sep): null and undefined elements give ''
RECURSIVE Join(_, _)
Join(items, sep) ==
    IF items = <<>> THEN <<>>
    ELSE LET h == IF Head(items).kind \in {"null", "undefined"} THEN <<>>
                  ELSE ScalarString(Head(items))
         IN  IF Len(items) = 1 THEN h ELSE h \o sep \o Join(Tail(items), sep)

\* String(v)
StringOf(v) == IF v.kind = "list" THEN Join(v.items, <<",">>) ELSE ScalarString(v)

NaN == [nan |-> TRUE, digits |-> <<>>]
Num(d) == [nan |-> FALSE, digits |-> d]

\* Number(s) of a string: blank is 0, decimal digits are the number
StringToNumber(s) ==
    LET t == Trim(s)
    IN  IF t = <<>> THEN Num(<<"0">>)
        ELSE IF \A i \in 1..Len(t) : IsDigit(t[i]) THEN Num(StripZeros(t))
        ELSE NaN

\* Number(v)
ToNumber(v) ==
    CASE v.kind = "null"      -> Num(<<"0">>)
      [] v.kind = "undefined" -> NaN
      [] v.kind = "string"    -> StringToNumber(v.str)
      [] v.kind = "number"    -> Num(v.str)
      [] v.kind = "boolean"   -> IF v = BoolVal(TRUE) THEN Num(<<"1">>) ELSE Num(<<"0">>)
      [] v.kind = "list"      -> StringToNumber(StringOf(v))
      [] OTHER -> NaN

\* 946684800000 of line 23
Year2000 == <<"9", "4", "6", "6", "8", "4", "8", "0", "0", "0", "0", "0">>
TimestampLength == 13

\* !isNaN(num) && num > 946684800000 && String(num).length === 13
isTimestamp(v) ==
    LET num == ToNumber(v)
    IN  /\ ~num.nan
        /\ GreaterDigits(num.digits, Year2000)
        /\ Len(num.digits) = TimestampLength

\* new Date(ms).toLocaleString('zh-CN', {hour12: false}): a date-time text
DateString(ms) == <<"D">> \o ms

\* a || b || c
FirstTruthy(vs, last) ==
    IF \E i \in 1..Len(vs) : Truthy(vs[i])
    THEN vs[CHOOSE i \in 1..Len(vs) : Truthy(vs[i]) /\ \A j \in 1..(i - 1) : ~Truthy(vs[j])]
    ELSE last

\* the callback of val.map in formatCellValue
formatItem(item) ==
    IF item.kind = "string" THEN item
    ELSE IF item.kind = "object"
    THEN FirstTruthy(<<item.name, item.text, item.fullAddress>>, StrVal(JsonDump))
    ELSE StrVal(ScalarString(item))

\* val.map(...).join(', ')
JoinComma(items) == Join([i \in 1..Len(items) |-> formatItem(items[i])], <<",", SP>>)

\* formatCellValue: the value it returns
formatCellValue(val) ==
    IF val.kind \in {"null", "undefined"} THEN StrVal(<<>>)
    ELSE IF isTimestamp(val) THEN StrVal(DateString(ToNumber(val).digits))
    ELSE IF val.kind \in {"string", "number", "boolean"} THEN StrVal(StringOf(val))
    ELSE IF val.kind = "list" THEN StrVal(JoinComma(val.items))
    ELSE FirstTruthy(<<val.name, val.text, val.fullAddress, val.value>>,
                     StrVal(JsonDump))

(***************************************************************************)
(* The host base: two tables, one record each.                             *)
(***************************************************************************)
NoTable == "none"
NoRecord == "none"
NoField == ""
TableIds == {"T1", "T2"}

\* table.getFieldList()
FieldList(t) == IF t = "T1" THEN <<"n1", "a1", "a2">> ELSE <<"n2">>

\* field type 17
AttachFieldIds == {"a1", "a2"}
IsAttachmentField(f) == f \in AttachFieldIds

\* table.getFieldListByType(17)
FieldListByType17(t) == SelectSeq(FieldList(t), IsAttachmentField)

\* field.getName()
FieldName(f) ==
    CASE f = "n1" -> <<"a">>
      [] f = "a1" -> <<"b">>
      [] f = "a2" -> <<"c">>
      [] OTHER    -> <<"A">>

RecordOf(t) == IF t = "T1" THEN "r1" ELSE "r2"

InTable(t, f) == \E i \in 1..Len(FieldList(t)) : FieldList(t)[i] = f

\* the host answers a cell call only for a field and a record of the table
\* the call is made on
Addressable(t, f, r) == t \in TableIds /\ InTable(t, f) /\ r = RecordOf(t)

\* the attachment lists a cell can hold before the first run
OldAtt == Attachment(9, <<"o">>)
NoTokenItem == Attachment(0, <<>>)
InitCells ==
    { NullVal, ListVal(<<>>), ListVal(<<OldAtt>>), ListVal(<<NullItem>>),
      ListVal(<<NoTokenItem, OldAtt>>) }
\* the cell of the second attachment field: empty or one reference
SecondCells == { NullVal, ListVal(<<OldAtt>>) }
InitStores == {s \in [AttachFieldIds -> InitCells] : s["a2"] \in SecondCells}

(***************************************************************************)
(* Template files.                                                         *)
(***************************************************************************)
NoFile == [kind |-> "none", nodes |-> <<>>]
Docx(nodes) == [kind |-> "docx", nodes |-> nodes]
\* a zip without word/document.xml
NoDocPart == [kind |-> "nodoc", nodes |-> <<>>]
\* bytes PizZip cannot open
NotZip == [kind |-> "notzip", nodes |-> <<>>]
Templates == { Docx(<< <<OB, "a", CB>>, <<OB, OB, "c", CB, CB>> >>), NoDocPart, NotZip }

(***************************************************************************)
(* State.  The component also holds status, debugData and generatedName:   *)
(* text the handlers write for display and never read; it is left out.     *)
(***************************************************************************)
VARIABLES
    \* component state (useState)
    table, fields, attachmentFields, selectedAttachFieldId, templateFile,
    generatedPdf, loading,
    \* the host: the table and record the user has selected, the attachment
    \* cells of each table's record, the next blob token
    hostTable, hostRecord, store, nextTok,
    \* the writes the host has stored, in order: field, value before, list read,
    \* token, value after
    persisted,
    \* the generation run: resumption point, the state captured by the
    \* handler's closure when the button was clicked, locals
    pc, snap, rec, idx, curName, recordData, patched, pdf, tok, currentVal,
    \* what the run did: result, notifications, saveAs calls, host calls
    outcome, toasts, saved, calls, runs,
    \* inputs and results of the resolver and the patcher taken alone
    tplNodes, recordMap, rawKey, patchOut, resolved, purePhase,
    \* input and result of formatCellValue taken alone
    cellVal, formatted

configVars == <<table, fields, attachmentFields, selectedAttachFieldId, templateFile>>
compVars == <<configVars, generatedPdf, loading>>
hostVars == <<hostTable, hostRecord, store, nextTok, persisted>>
localVars == <<snap, rec, idx, curName, recordData, patched, pdf, tok, currentVal>>
logVars == <<outcome, toasts, saved, calls>>
runVars == <<pc, localVars, logVars, runs>>
pureVars == <<tplNodes, recordMap, rawKey, patchOut, resolved, purePhase, cellVal,
              formatted>>
vars == <<compVars, hostVars, runVars, pureVars>>

Toast(level, msg) == [level |-> level, msg |-> msg]
Call(op, f, items) == [op |-> op, field |-> f, items |-> items]

NoSnap == [table |-> NoTable, fields |-> <<>>, attachmentFields |-> <<>>,
           selectedAttachFieldId |-> NoField, templateFile |-> NoFile]

NoPatch == [nodes |-> <<>>, warns |-> <<>>, replaced |-> 0]

PureIdle ==
    /\ tplNodes = <<>>
    /\ recordMap = <<>>
    /\ rawKey = <<>>
    /\ patchOut = NoPatch
    /\ resolved = Undefined
    /\ purePhase = "off"
    /\ cellVal = UndefinedVal
    /\ formatted = UndefinedVal

\* no run: the handler's locals do not exist, nothing is logged
NoRun ==
    /\ snap = NoSnap
    /\ rec = NoRecord
    /\ idx = 0
    /\ curName = <<>>
    /\ recordData = <<>>
    /\ patched = <<>>
    /\ pdf = 0
    /\ tok = 0
    /\ currentVal = <<>>
    /\ outcome = "none"
    /\ toasts = {}
    /\ saved = <<>>
    /\ calls = <<>>

Init ==
    /\ table = NoTable
    /\ fields = <<>>
    /\ attachmentFields = <<>>
    /\ selectedAttachFieldId = NoField
    /\ templateFile = NoFile
    /\ generatedPdf = 0
    /\ loading = FALSE
    /\ hostTable \in TableIds
    /\ hostRecord \in BOOLEAN
    /\ store \in InitStores
    /\ nextTok = 1
    /\ persisted = <<>>
    /\ pc = "idle"
    /\ NoRun
    /\ runs = 0
    /\ PureIdle

(***************************************************************************)
(* The user and the host outside a run.  A run reads the component state   *)
(* only when the button is clicked and the host's selection only when      *)
(* getSelection answers, and nothing else writes the store, so the steps   *)
(* of the user taken during a run reach the same runs as the same steps    *)
(* taken before it: they are taken at "idle".                              *)
(***************************************************************************)
\* the user opens the other table of the base
HostSwitchTable ==
    /\ pc = "idle"
    /\ \E t \in TableIds : t # hostTable /\ hostTable' = t
    /\ UNCHANGED <<hostRecord, store, nextTok, persisted, compVars, runVars, pureVars>>

\* the user selects or deselects the record of the open table
HostSelectRecord ==
    /\ pc = "idle"
    /\ hostRecord' = ~hostRecord
    /\ UNCHANGED <<hostTable, store, nextTok, persisted, compVars, runVars, pureVars>>

\* onFileChange / onRemove of the Upload control
onFileChange ==
    /\ pc = "idle"
    /\ \E f \in Templates \cup {NoFile} : f # templateFile /\ templateFile' = f
    /\ UNCHANGED <<table, fields, attachmentFields, selectedAttachFieldId,
                   generatedPdf, loading, hostVars, runVars, pureVars>>

\* onChange of the Select: one of the options of attachmentFields
SelectAttachField ==
    /\ pc = "idle"
    /\ \E i \in 1..Len(attachmentFields) :
          /\ attachmentFields[i].value # selectedAttachFieldId
          /\ selectedAttachFieldId' = attachmentFields[i].value
    /\ UNCHANGED <<table, fields, attachmentFields, templateFile,
                   generatedPdf, loading, hostVars, runVars, pureVars>>

\* attachFields.map(async f => ({label: await f.getName(), value: f.id}))
AttachOptions(t) ==
    [i \in 1..Len(FieldListByType17(t)) |->
        [label |-> FieldName(FieldListByType17(t)[i]),
         value |-> FieldListByType17(t)[i]]]

(***************************************************************************)
(* init (on mount and on the refresh button).  Every await may reject; the *)
(* setters called before the rejection have taken effect.                  *)
(***************************************************************************)
\* init without the `if (attachOptions.length > 0)` of line 90
initDoneAlwaysSelects ==
    /\ table' = hostTable
    /\ fields' = FieldList(hostTable)
    /\ attachmentFields' = AttachOptions(hostTable)
    /\ selectedAttachFieldId' =
          IF Len(AttachOptions(hostTable)) > 0
          THEN AttachOptions(hostTable)[1].value
          ELSE NoField
    /\ toasts' = toasts \cup {Toast("success", "refreshed")}

initDone ==
    /\ table' = hostTable
    /\ fields' = FieldList(hostTable)
    /\ attachmentFields' = AttachOptions(hostTable)
    /\ selectedAttachFieldId' =
          IF Len(AttachOptions(hostTable)) > 0
          THEN AttachOptions(hostTable)[1].value
          ELSE selectedAttachFieldId
    /\ toasts' = toasts \cup {Toast("success", "refreshed")}

init ==
    /\ pc = "idle"
    /\ \/ /\ table' = hostTable                             \* getFieldList rejects
          /\ UNCHANGED <<fields, attachmentFields, selectedAttachFieldId, toasts>>
       \/ /\ table' = hostTable                             \* getFieldListByType or
          /\ fields' = FieldList(hostTable)                 \* a getName rejects
          /\ UNCHANGED <<attachmentFields, selectedAttachFieldId, toasts>>
       \/ initDone
    /\ UNCHANGED <<templateFile, generatedPdf, loading, hostVars, pc, localVars,
                   outcome, saved, calls, runs, pureVars>>

(***************************************************************************)
(* generateAndExport.  The handler reads table, fields, attachmentFields,  *)
(* selectedAttachFieldId and templateFile through its closure: the values  *)
(* of the render in which the button was clicked (snap).                   *)
(***************************************************************************)
\* recordData[name] = v: a new key goes last, a known key keeps its place
SetKey(rd, k, v) ==
    IF KeyIndexes(rd, k) = {} THEN Append(rd, [key |-> k, val |-> v])
    ELSE [i \in 1..Len(rd) |-> IF rd[i].key = k THEN [key |-> k, val |-> v] ELSE rd[i]]

\* the catch of generateAndExport itself (lines 361-365)
OuterCatch(msg) ==
    /\ toasts' = toasts \cup {Toast("error", msg)}
    /\ loading' = FALSE
    /\ pc' = "done"
    /\ outcome' = "OuterError"

\* the finally of reader.onload (lines 354-357)
Finally ==
    /\ loading' = FALSE
    /\ pc' = "done"

\* the catch of reader.onload (lines 351-353), then its finally
InnerCatch(msg) ==
    /\ toasts' = toasts \cup {Toast("error", msg)}
    /\ outcome' = "InnerError"
    /\ Finally

\* the handler has returned and its notifications have expired: its locals
\* are gone
Dismiss ==
    /\ \/ pc = "done"
       \/ pc = "idle" /\ toasts # {}
    /\ pc' = "idle"
    /\ snap' = NoSnap
    /\ rec' = NoRecord
    /\ idx' = 0
    /\ curName' = <<>>
    /\ recordData' = <<>>
    /\ patched' = <<>>
    /\ pdf' = 0
    /\ tok' = 0
    /\ currentVal' = <<>>
    /\ outcome' = "none"
    /\ toasts' = {}
    /\ saved' = <<>>
    /\ calls' = <<>>
    /\ UNCHANGED <<compVars, hostVars, runs, pureVars>>

\* the button is disabled without a template and while loading
Click ==
    /\ templateFile # NoFile
    /\ ~loading
    /\ pc \in {"idle", "done"}
    /\ runs < MaxRuns
    /\ \/ /\ table = NoTable
          /\ toasts' = toasts \cup {Toast("error", "select template and table")}
          /\ UNCHANGED <<loading, pc, localVars, outcome, saved, calls, runs>>
       \/ /\ table # NoTable
          /\ loading' = TRUE
          /\ snap' = [table |-> table, fields |-> fields,
                      attachmentFields |-> attachmentFields,
                      selectedAttachFieldId |-> selectedAttachFieldId,
                      templateFile |-> templateFile]
          /\ pc' = "getSelection"
          /\ runs' = runs + 1
          /\ rec' = NoRecord
          /\ idx' = 0
          /\ curName' = <<>>
          /\ recordData' = <<>>
          /\ patched' = <<>>
          /\ pdf' = 0
          /\ tok' = 0
          /\ currentVal' = <<>>
          /\ outcome' = "running"
          /\ toasts' = {}
          /\ saved' = <<>>
          /\ calls' = <<Call("getSelection", NoField, <<>>)>>
    /\ UNCHANGED <<configVars, generatedPdf, hostVars, pureVars>>

\* await bitable.base.getSelection() answers
SelectionReturn ==
    /\ pc = "getSelection"
    /\ \/ /\ OuterCatch("getSelection rejected")
          /\ UNCHANGED <<rec, idx, calls>>
       \/ /\ ~hostRecord
          /\ toasts' = toasts \cup {Toast("error", "select a record")}
          /\ loading' = FALSE
          /\ pc' = "done"
          /\ outcome' = "NoRecord"
          /\ UNCHANGED <<rec, idx, calls>>
       \/ /\ hostRecord
          /\ rec' = RecordOf(hostTable)
          /\ IF snap.fields = <<>>
             THEN /\ pc' = "reading"
                  /\ UNCHANGED <<idx, calls>>
             ELSE /\ idx' = 1
                  /\ pc' = "getName"
                  /\ calls' = Append(calls, Call("getName", snap.fields[1], <<>>))
          /\ UNCHANGED <<loading, outcome, toasts>>
    /\ UNCHANGED <<configVars, generatedPdf, hostVars, snap, curName, recordData,
                   patched, pdf, tok, currentVal, saved, runs, pureVars>>

\* await field.getName() answers
NameReturn ==
    /\ pc = "getName"
    /\ \/ /\ OuterCatch("getName rejected")
          /\ UNCHANGED <<curName, calls>>
       \/ /\ curName' = FieldName(snap.fields[idx])
          /\ pc' = "getCellValue"
          /\ calls' = Append(calls, Call("getCellValue", snap.fields[idx], <<>>))
          /\ UNCHANGED <<loading, outcome, toasts>>
    /\ UNCHANGED <<configVars, generatedPdf, hostVars, snap, rec, idx, recordData,
                   patched, pdf, tok, currentVal, saved, runs, pureVars>>

\* the value the host holds for a field of a table's record
CellValue(f) == IF IsAttachmentField(f) THEN store[f] ELSE StrVal(<<"X">>)

\* the catch of a read that goes on: console.warn(...)
Warned(f) == Append(calls, Call("console.warn", f, <<>>))

\* the loop without its awaits: getName and getCellValue of the next field are
\* called together
NextFieldNoAwait(v, log) ==
    /\ recordData' = SetKey(recordData, curName, v)
    /\ IF idx = Len(snap.fields)
       THEN /\ pc' = "reading"
            /\ calls' = log
            /\ UNCHANGED idx
       ELSE /\ idx' = idx + 1
            /\ pc' = "getName"
            /\ calls' = log \o <<Call("getCellValue", snap.fields[idx + 1], <<>>),
                                 Call("getName", snap.fields[idx + 1], <<>>)>>

\* recordData[name] = v, then the next field, or (the loop over) the reader
\* is started: reader.readAsArrayBuffer(templateFile)
NextField(v, log) ==
    /\ recordData' = SetKey(recordData, curName, v)
    /\ IF idx = Len(snap.fields)
       THEN /\ pc' = "reading"
            /\ calls' = log
            /\ UNCHANGED idx
       ELSE /\ idx' = idx + 1
            /\ pc' = "getName"
            /\ calls' = Append(log, Call("getName", snap.fields[idx + 1], <<>>))

\* await table.getCellValue(field.id, selection.recordId) answers, inside
\* the loop's own try/catch.  recordData keeps the text String(val) of line
\* 212 makes of the stored value, the only reading of it.
CellReturn ==
    /\ pc = "getCellValue"
    /\ \/ NextField(<<>>, Warned(snap.fields[idx]))         \* rejected: ''
       \/ /\ Addressable(snap.table, snap.fields[idx], rec)
          /\ NextField(StringOf(formatCellValue(CellValue(snap.fields[idx]))), calls)
    /\ UNCHANGED <<compVars, hostVars, snap, rec, curName, patched, pdf, tok,
                   currentVal, outcome, toasts, saved, runs, pureVars>>

\* the FileReader reports an error: onload is never called and no other
\* handler is registered
ReaderError ==
    /\ pc = "reading"
    /\ pc' = "abandoned"
    /\ outcome' = "Abandoned"
    /\ UNCHANGED <<compVars, hostVars, localVars, toasts, saved, calls, runs, pureVars>>

\* reader.onload without the else branch of line 229: a zip without the
\* document part goes on to rendering unpatched
OnloadNoElse ==
    /\ pc = "reading"
    /\ \/ /\ snap.templateFile.kind = "notzip"
          /\ InnerCatch("cannot open zip")
          /\ UNCHANGED patched
       \/ /\ snap.templateFile.kind \in {"docx", "nodoc"}
          /\ patched' = PatchNodes(snap.templateFile.nodes, recordData).nodes
          /\ pc' = "renderAsync"
          /\ UNCHANGED <<loading, outcome, toasts>>
    /\ UNCHANGED <<configVars, generatedPdf, hostVars, snap, rec, idx, curName,
                   recordData, pdf, tok, currentVal, saved, calls, runs, pureVars>>

\* reader.onload up to the await of renderAsync.  The load event of
\* readAsArrayBuffer carries an ArrayBuffer, which is never falsy, so the
\* `if (!content) return` of line 162 is not taken; the hidden div of
\* previewRef is rendered with the component.
Onload ==
    /\ pc = "reading"
    /\ \/ /\ snap.templateFile.kind = "notzip"              \* new PizZip throws
          /\ InnerCatch("cannot open zip")
          /\ UNCHANGED patched
       \/ /\ snap.templateFile.kind = "nodoc"
          /\ InnerCatch("Invalid docx: missing word/document.xml")
          /\ UNCHANGED patched
       \/ /\ snap.templateFile.kind = "docx"
          /\ patched' = PatchNodes(snap.templateFile.nodes, recordData).nodes
          /\ pc' = "renderAsync"
          /\ UNCHANGED <<loading, outcome, toasts>>
    /\ UNCHANGED <<configVars, generatedPdf, hostVars, snap, rec, idx, curName,
                   recordData, pdf, tok, currentVal, saved, calls, runs, pureVars>>

\* await renderAsync(...) answers
RenderReturn ==
    /\ pc = "renderAsync"
    /\ \/ InnerCatch("render failed")
       \/ /\ pc' = "settle"
          /\ UNCHANGED <<loading, outcome, toasts>>
    /\ UNCHANGED <<configVars, generatedPdf, hostVars, localVars, saved, calls, runs,
                   pureVars>>

\* the 1000 ms timer fires: html2canvas is called
SettleElapsed ==
    /\ pc = "settle"
    /\ pc' = "html2canvas"
    /\ UNCHANGED <<compVars, hostVars, localVars, logVars, runs, pureVars>>

\* lines 285-303 without the `if (!selectedAttachFieldId)` of line 289
AfterPdfAlwaysUploads ==
    /\ pdf' = runs
    /\ generatedPdf' = runs
    /\ pc' = "batchUploadFile"
    /\ calls' = Append(calls, Call("batchUploadFile", NoField, <<>>))
    /\ UNCHANGED <<loading, outcome, toasts, saved>>

\* lines 285-293 and 299-303 once the PDF blob exists
AfterPdf ==
    /\ pdf' = runs
    /\ generatedPdf' = runs
    /\ IF snap.selectedAttachFieldId = NoField
       THEN /\ toasts' = toasts \cup {Toast("warning", "select an attachment field")}
            /\ saved' = Append(saved, runs)
            /\ outcome' = "NoTarget"
            /\ Finally
            /\ UNCHANGED calls
       ELSE /\ pc' = "batchUploadFile"
            /\ calls' = Append(calls, Call("batchUploadFile", NoField, <<>>))
            /\ UNCHANGED <<loading, outcome, toasts, saved>>

\* await html2canvas(...) answers; the PDF is built; the target is looked at
CanvasReturn ==
    /\ pc = "html2canvas"
    /\ \/ /\ InnerCatch("rasterize failed")
          /\ UNCHANGED <<pdf, generatedPdf, saved, calls>>
       \/ /\ InnerCatch("pdf build failed")                 \* jsPDF throws
          /\ UNCHANGED <<pdf, generatedPdf, saved, calls>>
       \/ AfterPdf
    /\ UNCHANGED <<configVars, hostVars, snap, rec, idx, curName, recordData, patched,
                   tok, currentVal, runs, pureVars>>

\* rawVal.filter(item => item && item.token)
KeepsItem(item) == item.kind # "null" /\ item.token # 0
FilterTokens(items) == SelectSeq(items, KeepsItem)

\* verifyVal.some(item => item.token === tokens[0]): reading .token of a
\* null item throws a TypeError
RECURSIVE SomeToken(_, _)
SomeToken(items, t) ==
    IF items = <<>> THEN "false"
    ELSE IF Head(items).kind = "null" THEN "throw"
    ELSE IF Head(items).token = t THEN "true"
    ELSE SomeToken(Tail(items), t)

\* `Generated_${selection.recordId}.pdf`
FileName == <<"g">>

newAttachment == Attachment(tok, FileName)

\* batchUploadFile answers, with a notification in place of the throw of
\* line 305
UploadReturnGoesOn ==
    /\ pc = "batchUploadFile"
    /\ \/ /\ InnerCatch("upload rejected")
          /\ UNCHANGED <<tok, nextTok, calls>>
       \/ /\ toasts' = toasts \cup {Toast("error", "upload returned no token")}
          /\ pc' = "readCurrent"
          /\ calls' = Append(calls, Call("getCellValue", snap.selectedAttachFieldId, <<>>))
          /\ UNCHANGED <<tok, nextTok, loading, outcome>>
       \/ /\ tok' = nextTok
          /\ nextTok' = nextTok + 1
          /\ pc' = "readCurrent"
          /\ calls' = Append(calls, Call("getCellValue", snap.selectedAttachFieldId, <<>>))
          /\ UNCHANGED <<loading, outcome, toasts>>
    /\ UNCHANGED <<configVars, generatedPdf, hostTable, hostRecord, store, persisted, snap, rec,
                   idx, curName, recordData, patched, pdf, currentVal, saved, runs,
                   pureVars>>

\* await bitable.base.batchUploadFile([file]) answers
UploadReturn ==
    /\ pc = "batchUploadFile"
    /\ \/ /\ InnerCatch("upload rejected")
          /\ UNCHANGED <<tok, nextTok, calls>>
       \/ /\ InnerCatch("upload returned no token")         \* !tokens || length 0
          /\ UNCHANGED <<tok, nextTok, calls>>
       \/ /\ tok' = nextTok
          /\ nextTok' = nextTok + 1
          /\ pc' = "readCurrent"
          /\ calls' = Append(calls, Call("getCellValue", snap.selectedAttachFieldId, <<>>))
          /\ UNCHANGED <<loading, outcome, toasts>>
    /\ UNCHANGED <<configVars, generatedPdf, hostTable, hostRecord, store, persisted, snap, rec,
                   idx, curName, recordData, patched, pdf, currentVal, saved, runs,
                   pureVars>>

\* setCellValue called with [newAttachment] alone
StartWriteOverwrites(cur, log) ==
    /\ currentVal' = cur
    /\ pc' = "setCellValue"
    /\ calls' = Append(log, Call("setCellValue", snap.selectedAttachFieldId,
                                   <<newAttachment>>))

\* setCellValue is called with [...currentVal, newAttachment]
StartWrite(cur, log) ==
    /\ currentVal' = cur
    /\ pc' = "setCellValue"
    /\ calls' = Append(log, Call("setCellValue", snap.selectedAttachFieldId,
                                   Append(cur, newAttachment)))

\* lines 316-325: the current list, filtered; not a list counts as empty
CurrentList(rawVal) ==
    IF rawVal.kind = "list" THEN FilterTokens(rawVal.items) ELSE <<>>

\* await table.getCellValue(selectedAttachFieldId, recordId) answers, inside
\* its own try/catch
ReadCurrentReturn ==
    /\ pc = "readCurrent"
    /\ \/ StartWrite(<<>>, Warned(snap.selectedAttachFieldId))  \* rejected: go on
       \/ /\ Addressable(snap.table, snap.selectedAttachFieldId, rec)
          /\ StartWrite(CurrentList(store[snap.selectedAttachFieldId]), calls)
    /\ UNCHANGED <<compVars, hostVars, snap, rec, idx, curName, recordData, patched,
                   pdf, tok, outcome, toasts, saved, runs, pureVars>>

\* await table.setCellValue(...) answers: rejected, resolved with the list
\* it was given stored, or resolved (false) with nothing stored; the result
\* is not read
WriteReturn ==
    /\ pc = "setCellValue"
    /\ \/ /\ InnerCatch("setCellValue rejected")
          /\ UNCHANGED <<store, persisted>>
       \/ /\ Addressable(snap.table, snap.selectedAttachFieldId, rec)
          /\ store' = [store EXCEPT ![snap.selectedAttachFieldId] = ListVal(calls[Len(calls)].items)]
          /\ persisted' = Append(persisted,
                                 [field  |-> snap.selectedAttachFieldId,
                                  before |-> store[snap.selectedAttachFieldId],
                                  read   |-> currentVal,
                                  token  |-> tok,
                                  after  |-> ListVal(calls[Len(calls)].items)])
          /\ pc' = "settleVerify"
          /\ UNCHANGED <<loading, outcome, toasts>>
       \/ /\ pc' = "settleVerify"
          /\ UNCHANGED <<store, persisted, loading, outcome, toasts>>
    /\ UNCHANGED <<configVars, generatedPdf, hostTable, hostRecord, nextTok, localVars,
                   saved, calls, runs, pureVars>>

\* the 1000 ms timer before the verification fires: getCellValue is called
VerifyElapsed ==
    /\ pc = "settleVerify"
    /\ pc' = "verify"
    /\ calls' = Append(calls, Call("getCellValue", snap.selectedAttachFieldId, <<>>))
    /\ UNCHANGED <<compVars, hostVars, localVars, outcome, toasts, saved, runs,
                   pureVars>>

\* lines 337-349 without the saveAs of line 348
VerifyNoFallback(verifyVal) ==
    LET some == IF verifyVal.kind = "list" THEN SomeToken(verifyVal.items, tok)
                ELSE "false"
    IN  CASE some = "true" ->
               /\ toasts' = toasts \cup {Toast("success", "uploaded")}
               /\ outcome' = "Verified"
               /\ Finally
               /\ UNCHANGED saved
          [] some = "false" ->
               /\ toasts' = toasts \cup {Toast("warning", "write not confirmed")}
               /\ outcome' = "Unverified"
               /\ Finally
               /\ UNCHANGED saved
          [] OTHER ->
               /\ InnerCatch("TypeError")
               /\ UNCHANGED saved

\* lines 337-349 on the value read back
Verify(verifyVal) ==
    LET some == IF verifyVal.kind = "list" THEN SomeToken(verifyVal.items, tok)
                ELSE "false"
    IN  CASE some = "true" ->
               /\ toasts' = toasts \cup {Toast("success", "uploaded")}
               /\ outcome' = "Verified"
               /\ Finally
               /\ UNCHANGED saved
          [] some = "false" ->
               /\ toasts' = toasts \cup {Toast("warning", "write not confirmed")}
               /\ saved' = Append(saved, pdf)
               /\ outcome' = "Unverified"
               /\ Finally
          [] OTHER ->
               /\ InnerCatch("TypeError")
               /\ UNCHANGED saved

\* await table.getCellValue(selectedAttachFieldId, recordId) answers
VerifyReturn ==
    /\ pc = "verify"
    /\ \/ /\ InnerCatch("verification read rejected")
          /\ UNCHANGED saved
       \/ /\ Addressable(snap.table, snap.selectedAttachFieldId, rec)
          /\ Verify(store[snap.selectedAttachFieldId])
    /\ UNCHANGED <<configVars, generatedPdf, hostVars, localVars, calls, runs, pureVars>>

Next ==
    \/ HostSwitchTable
    \/ HostSelectRecord
    \/ onFileChange
    \/ SelectAttachField
    \/ init
    \/ Dismiss
    \/ Click
    \/ SelectionReturn
    \/ NameReturn
    \/ CellReturn
    \/ ReaderError
    \/ Onload
    \/ RenderReturn
    \/ SettleElapsed
    \/ CanvasReturn
    \/ UploadReturn
    \/ ReadCurrentReturn
    \/ WriteReturn
    \/ VerifyElapsed
    \/ VerifyReturn

Spec == Init /\ [][Next]_vars

\* what the environment owes a run that is under way: every host call is
\* answered (resolved or rejected), every timer fires, the FileReader ends its
\* read with a load or with an error
RunSteps ==
    \/ SelectionReturn
    \/ NameReturn
    \/ CellReturn
    \/ ReaderError
    \/ Onload
    \/ RenderReturn
    \/ SettleElapsed
    \/ CanvasReturn
    \/ UploadReturn
    \/ ReadCurrentReturn
    \/ WriteReturn
    \/ VerifyElapsed
    \/ VerifyReturn

SpecLive == Init /\ [][Next]_vars /\ WF_vars(RunSteps)
(***************************************************************************)
(* The patcher taken alone: a template of one or two w:t nodes with at     *)
(* most MaxLen characters in all, a record map, and the loop of lines      *)
(* 179-221 applied to them.                                                *)
(***************************************************************************)
PatchChars == {OB, CB, "a", SP}

\* text t as one node (c = Len(t) + 1) or cut into two nodes after c characters
CutAt(t, c) ==
    IF c > Len(t) THEN <<t>> ELSE <<SubSeq(t, 1, c), SubSeq(t, c + 1, Len(t))>>

PatchMaps ==
    { <<[key |-> <<"a">>, val |-> <<"X">>]>>,
      <<[key |-> <<"A">>, val |-> <<"Y", "Y">>]>>,
      <<[key |-> <<"a">>, val |-> <<OB, "A", CB>>], [key |-> <<"A">>, val |-> <<"Y">>]>>,
      <<[key |-> <<"a">>, val |-> <<OB, "b", CB>>]>> }

\* the component at rest
AtRest ==
    /\ table = NoTable
    /\ fields = <<>>
    /\ attachmentFields = <<>>
    /\ selectedAttachFieldId = NoField
    /\ templateFile = NoFile
    /\ generatedPdf = 0
    /\ loading = FALSE
    /\ hostTable = "T1"
    /\ hostRecord = FALSE
    /\ store = [f \in AttachFieldIds |-> NullVal]
    /\ nextTok = 1
    /\ persisted = <<>>
    /\ pc = "idle"
    /\ NoRun
    /\ runs = 0

InitPatch ==
    /\ AtRest
    /\ \E k \in 0..MaxLen : \E t \in [1..k -> PatchChars] : \E c \in 0..(k + 1) :
          tplNodes = CutAt(t, c)
    /\ recordMap \in PatchMaps
    /\ rawKey = <<>>
    /\ patchOut = NoPatch
    /\ resolved = Undefined
    /\ purePhase = "input"
    /\ cellVal = UndefinedVal
    /\ formatted = UndefinedVal

ApplyPatch ==
    /\ purePhase = "input"
    /\ patchOut' = PatchNodes(tplNodes, recordMap)
    /\ purePhase' = "patched"
    /\ UNCHANGED <<compVars, hostVars, runVars, tplNodes, recordMap, rawKey, resolved,
                   cellVal, formatted>>

NextPatch == ApplyPatch

SpecPatch == InitPatch /\ [][NextPatch]_vars

(***************************************************************************)
(* The resolver taken alone: a token key as the regex captures it, a       *)
(* record map of at most MaxFields entries, and the callback's             *)
(* key.trim() and findValue applied to them.                               *)
(***************************************************************************)
RawKeys ==
    { <<"a">>, <<"A">>, <<SP, "a", SP>>, <<SYM, "a">>, <<"a", SP, "b">>,
      <<"b">>, <<SYM>>, <<SP>>, <<SP, CJK, SP>> }

MapKeys == { <<"a">>, <<"A">>, <<SYM, "a">>, <<"a", "b">>, <<SYM>>, <<CJK>>, <<>> }

MapVals == { <<>>, <<"X">>, <<"Y">> }

\* record maps of at most n entries: keys pairwise different
RecordMaps(n) ==
    {m \in UNION {[1..k -> [key : MapKeys, val : MapVals]] : k \in 0..n} :
        \A i, j \in 1..Len(m) : i # j => m[i].key # m[j].key}

InitResolve ==
    /\ AtRest
    /\ tplNodes = <<>>
    /\ recordMap \in RecordMaps(MaxFields)
    /\ rawKey \in RawKeys
    /\ patchOut = NoPatch
    /\ resolved = Undefined
    /\ purePhase = "input"
    /\ cellVal = UndefinedVal
    /\ formatted = UndefinedVal

ApplyResolve ==
    /\ purePhase = "input"
    /\ resolved' = Resolve(rawKey, recordMap)
    /\ purePhase' = "resolved"
    /\ UNCHANGED <<compVars, hostVars, runVars, tplNodes, recordMap, rawKey, patchOut,
                   cellVal, formatted>>

NextResolve == ApplyResolve

SpecResolve == InitResolve /\ [][NextResolve]_vars

(***************************************************************************)
(* formatCellValue taken alone: a cell value of one of the shapes the host *)
(* returns (scalars, lists of at most MaxItems items, objects), and        *)
(* formatCellValue applied to it.                                          *)
(***************************************************************************)
Below2000 == <<"9", "4", "6", "6", "8", "4", "7", "9", "9", "9", "9", "9">>
After2000 == <<"9", "4", "6", "6", "8", "4", "8", "0", "0", "0", "0", "1">>
Ms13 == <<"1", "7", "0", "0", "0", "0", "0", "0", "0", "0", "0", "0", "0">>
Ms14 == <<"1">> \o Ms13

FormatNumbers ==
    { <<"0">>, <<"5">>, Below2000, Year2000, After2000, Ms13, Ms14,
      <<"9", "9", "9", "9", "9", "9", "9", "9", "9", "9", "9", "9">> }

FormatStrings ==
    { <<>>, <<"a">>, <<SP>>, <<"0", "5">>, Year2000, Ms13, <<SP>> \o Ms13, Ms14 }

PropVals == { UndefinedVal, StrVal(<<>>), StrVal(<<"N">>), NumVal(<<"5">>), NumVal(<<"0">>) }

FormatObjects ==
    { ObjVal(0, n, x, fa, v) : n \in PropVals, x \in PropVals,
                               fa \in {UndefinedVal, StrVal(<<"F">>)},
                               v \in PropVals }

FormatItems ==
    { NullItem, UndefinedVal, StrVal(<<>>), StrVal(<<"a">>), StrVal(Ms13), NumVal(Ms13),
      NumVal(<<"5">>), BoolVal(TRUE),
      ObjVal(0, UndefinedVal, UndefinedVal, UndefinedVal, UndefinedVal),
      ObjVal(0, StrVal(<<"N">>), StrVal(<<"T">>), UndefinedVal, UndefinedVal),
      ObjVal(0, StrVal(<<>>), StrVal(<<"T">>), StrVal(<<"F">>), UndefinedVal),
      ObjVal(0, UndefinedVal, UndefinedVal, StrVal(<<"F">>), UndefinedVal) }

FormatLists(n) == UNION {[1..k -> FormatItems] : k \in 0..n}

InitFormat ==
    /\ AtRest
    /\ tplNodes = <<>>
    /\ recordMap = <<>>
    /\ rawKey = <<>>
    /\ patchOut = NoPatch
    /\ resolved = Undefined
    /\ purePhase = "input"
    /\ \/ cellVal \in {NullVal, UndefinedVal, BoolVal(TRUE), BoolVal(FALSE)}
       \/ \E d \in FormatNumbers : cellVal = NumVal(d)
       \/ \E t \in FormatStrings : cellVal = StrVal(t)
       \/ \E l \in FormatLists(MaxItems) : cellVal = ListVal(l)
       \/ cellVal \in FormatObjects
    /\ formatted = UndefinedVal

ApplyFormat ==
    /\ purePhase = "input"
    /\ formatted' = formatCellValue(cellVal)
    /\ purePhase' = "formatted"
    /\ UNCHANGED <<compVars, hostVars, runVars, tplNodes, recordMap, rawKey, patchOut,
                   resolved, cellVal>>

NextFormat == ApplyFormat

SpecFormat == InitFormat /\ [][NextFormat]_vars

(***************************************************************************)
(* Properties of a run of generateAndExport.  calls is the list of the     *)
(* host calls the run has made, in order; the store is written only by a   *)
(* setCellValue the run has called.                                        *)
(***************************************************************************)
InRun == snap # NoSnap
Target == snap.selectedAttachFieldId
CallIndexes(op) == {i \in 1..Len(calls) : calls[i].op = op}
LastCall == calls[Len(calls)]

\* call i is the read the record loop makes of a field, after its getName
IsLoopRead(i) ==
    /\ i > 1
    /\ calls[i].op = "getCellValue"
    /\ calls[i - 1] = Call("getName", calls[i].field, <<>>)
    /\ \E j \in 1..Len(snap.fields) : snap.fields[j] = calls[i].field

(***************************************************************************)
(* C1.  When setCellValue is called, the written list is the entries the   *)
(* field holds (those that carry a token, which the filter of line 321     *)
(* keeps), in their order, followed by the one new reference, whatever the *)
(* outcome of the read before it.                                          *)
(***************************************************************************)
C1_WrittenKeepsHeld ==
    (pc = "setCellValue" /\ Addressable(snap.table, Target, rec)) =>
        LET held == IF store[Target].kind = "list" THEN store[Target].items ELSE <<>>
        IN  LastCall = Call("setCellValue", Target,
                            SelectSeq(held, KeepsItem) \o <<newAttachment>>)

(***************************************************************************)
(* C2.  Once the read after the write has answered, the run has ended as   *)
(* Verified, with the success notification and nothing saved locally, if   *)
(* the value read is a list with an entry of the new token, and otherwise  *)
(* as Unverified, with the warning and the PDF saved locally.              *)
(***************************************************************************)
VerifyAnswered ==
    /\ pc = "done"
    /\ CallIndexes("setCellValue") # {}
    /\ LastCall = Call("getCellValue", Target, <<>>)
    /\ Toast("error", "verification read rejected") \notin toasts

HoldsToken(v, t) ==
    /\ v.kind = "list"
    /\ \E i \in 1..Len(v.items) : v.items[i].kind = "object" /\ v.items[i].token = t

C2_VerifyDecides ==
    VerifyAnswered =>
        IF HoldsToken(store[Target], tok)
        THEN /\ outcome = "Verified"
             /\ Toast("success", "uploaded") \in toasts
             /\ saved = <<>>
        ELSE /\ outcome = "Unverified"
             /\ Toast("warning", "write not confirmed") \in toasts
             /\ saved = <<pdf>>

(***************************************************************************)
(* C3.  The claim as made: a run that has produced the PDF with a target   *)
(* field configured and has ended without the verification confirming the  *)
(* token has saved the PDF locally.                                        *)
(***************************************************************************)
PersistEnded == pc = "done" /\ pdf # 0 /\ Target # NoField

C3_FallbackOnEveryFailure ==
    (PersistEnded /\ outcome # "Verified") => saved = <<pdf>>

(***************************************************************************)
(* C3 as amended.  In every such run the PDF is kept in generatedPdf for   *)
(* the download button.  saveAs is called by the run exactly when the      *)
(* verification read answers and the token is not found (Unverified, with  *)
(* the warning); when the upload, the write or the verification read       *)
(* fails, or the verification throws, the run ends with an error           *)
(* notification and nothing is saved.                                      *)
(***************************************************************************)
C3_FallbackOnlyUnverified ==
    PersistEnded =>
        /\ generatedPdf = pdf
        /\ ~loading
        /\ outcome \in {"Verified", "Unverified", "InnerError"}
        /\ outcome = "Unverified" =>
              /\ saved = <<pdf>>
              /\ Toast("warning", "write not confirmed") \in toasts
        /\ outcome = "Verified" =>
              /\ saved = <<>>
              /\ Toast("success", "uploaded") \in toasts
        /\ outcome = "InnerError" =>
              /\ saved = <<>>
              /\ \E t \in toasts : t.level = "error"

\* the write is rejected after the upload: an error, nothing saved
C3_Witness ==
    /\ PersistEnded
    /\ outcome = "InnerError"
    /\ Toast("error", "setCellValue rejected") \in toasts
    /\ CallIndexes("batchUploadFile") # {}
    /\ tok # 0
    /\ saved = <<>>
    /\ generatedPdf = pdf

(***************************************************************************)
(* C4.  The claim as made: in a run started with no attachment field       *)
(* selected nothing is uploaded, no attachment field is read and           *)
(* setCellValue is not called; once the PDF exists the run ends as         *)
(* NoTarget with the PDF saved locally.                                    *)
(***************************************************************************)
NoTargetRun == InRun /\ Target = NoField

C4_NoTargetNoAttachmentRead ==
    NoTargetRun =>
        /\ CallIndexes("batchUploadFile") = {}
        /\ CallIndexes("setCellValue") = {}
        /\ \A i \in CallIndexes("getCellValue") : ~IsAttachmentField(calls[i].field)
        /\ (pc = "done" /\ pdf # 0) => (outcome = "NoTarget" /\ saved = <<pdf>>)

(***************************************************************************)
(* C4 as amended.  In such a run nothing is uploaded and setCellValue is   *)
(* not called; the only cell reads are those of the record loop, one for   *)
(* each field of the table's field list, attachment fields included; once  *)
(* the PDF exists the run ends as NoTarget with the warning and the PDF    *)
(* saved locally.                                                          *)
(***************************************************************************)
C4_NoTargetOnlyLoopReads ==
    NoTargetRun =>
        /\ CallIndexes("batchUploadFile") = {}
        /\ CallIndexes("setCellValue") = {}
        /\ \A i \in CallIndexes("getCellValue") : IsLoopRead(i)
        /\ Cardinality(CallIndexes("getCellValue")) <= Len(snap.fields)
        /\ (pc = "done" /\ pdf # 0) =>
              /\ outcome = "NoTarget"
              /\ saved = <<pdf>>
              /\ generatedPdf = pdf
              /\ toasts = {Toast("warning", "select an attachment field")}

\* a NoTarget run whose record loop has read an attachment field
C4_Witness ==
    /\ NoTargetRun
    /\ pc = "done"
    /\ outcome = "NoTarget"
    /\ saved = <<pdf>>
    /\ \E i \in CallIndexes("getCellValue") : IsAttachmentField(calls[i].field)

(***************************************************************************)
(* C5.  The claim as made: when the upload returns no token the failure is *)
(* shown as an error and no call of the run reads or writes the target     *)
(* attachment field.                                                       *)
(***************************************************************************)
NoTokenReturned == Toast("error", "upload returned no token") \in toasts

C6_MissingDocumentPart ==
    (InRun /\ snap.templateFile.kind = "nodoc") =>
        /\ pc \in {"getSelection", "getName", "getCellValue", "reading",
                   "abandoned", "done"}
        /\ patched = <<>>
        /\ pdf = 0
        /\ saved = <<>>
        /\ CallIndexes("batchUploadFile") = {}
        /\ CallIndexes("setCellValue") = {}
        /\ pc = "done" => /\ ~loading
                          /\ outcome \in {"NoRecord", "OuterError", "InnerError"}
        /\ outcome = "InnerError" =>
              toasts = {Toast("error", "Invalid docx: missing word/document.xml")}

\* reader.onload has thrown on the missing part
C6_Witness ==
    /\ InRun
    /\ snap.templateFile.kind = "nodoc"
    /\ pc = "done"
    /\ outcome = "InnerError"
    /\ Toast("error", "Invalid docx: missing word/document.xml") \in toasts
    /\ recordData # <<>>

(***************************************************************************)
(* The token grammar stated on spans, for the properties below: s..e is a  *)
(* token of the text when it is a run of "{", a non-empty run of           *)
(* characters other than braces and a run of "}", and neither run can be   *)
(* extended.                                                               *)
(***************************************************************************)
IsTokenText(t, s, e) ==
    \E o \in s..e : \E k \in s..e :
        /\ o < k /\ k < e
        /\ \A q \in s..o : t[q] = OB
        /\ \A q \in (o + 1)..k : ~IsBrace(t[q])
        /\ \A q \in (k + 1)..e : t[q] = CB

IsTokenSpan(t, s, e) ==
    /\ 1 <= s /\ s < e /\ e <= Len(t)
    /\ IsTokenText(t, s, e)
    /\ s = 1 \/ t[s - 1] # OB
    /\ e = Len(t) \/ t[e + 1] # CB

TokenSpans(t) == {sp \in (1..Len(t)) \X (1..Len(t)) : IsTokenSpan(t, sp[1], sp[2])}

NotBrace(c) == ~IsBrace(c)
SpanKey(t, sp) == SelectSeq(SubSeq(t, sp[1], sp[2]), NotBrace)

ResolvedSpans(t, rd) == {sp \in TokenSpans(t) : Resolve(SpanKey(t, sp), rd).found}
UnresolvedSpans(t, rd) == TokenSpans(t) \ ResolvedSpans(t, rd)

RECURSIVE CountUnresolved(_, _)
CountUnresolved(nodes, rd) ==
    IF nodes = <<>> THEN 0
    ELSE Cardinality(UnresolvedSpans(Head(nodes), rd)) + CountUnresolved(Tail(nodes), rd)

RECURSIVE CountResolved(_, _)
CountResolved(nodes, rd) ==
    IF nodes = <<>> THEN 0
    ELSE Cardinality(ResolvedSpans(Head(nodes), rd)) + CountResolved(Tail(nodes), rd)

\* how far the text after position s has moved: the resolved tokens before
\* s have been replaced by their values
RECURSIVE Shift(_, _, _)
Shift(t, rd, before) ==
    IF before = {} THEN 0
    ELSE LET sp == CHOOSE x \in before : TRUE
         IN  Len(Resolve(SpanKey(t, sp), rd).val) - (sp[2] - sp[1] + 1)
             + Shift(t, rd, before \ {sp})

ShiftAt(t, rd, s) == Shift(t, rd, {sp \in ResolvedSpans(t, rd) : sp[2] < s})

(***************************************************************************)
(* C7.  Whenever the trimmed key of a token is itself a key of the record  *)
(* map, resolution returns the value stored under that very key, also when *)
(* an earlier key of the map has the same normalized form.                 *)
(***************************************************************************)
C7_ExactKeyWins ==
    purePhase = "resolved" =>
        \A i \in 1..Len(recordMap) :
            recordMap[i].key = Trim(rawKey) => resolved = Found(recordMap[i].val)

C7_Witness ==
    /\ purePhase = "resolved"
    /\ \E i \in 1..Len(recordMap) : \E j \in 1..Len(recordMap) :
          /\ j < i
          /\ Trim(rawKey) # <<>>
          /\ normalize(Trim(rawKey)) # <<>>
          /\ recordMap[i].key = Trim(rawKey)
          /\ recordMap[j].key # <<>>
          /\ normalize(recordMap[j].key) = normalize(Trim(rawKey))
          /\ recordMap[j].val # recordMap[i].val
          /\ resolved = Found(recordMap[i].val)

(***************************************************************************)
(* C8.  A token whose key does not resolve stays in the node's text as it  *)
(* was, braces included, at the place the replacements before it leave it; *)
(* every node is patched (the operation does not fail), the tokens that    *)
(* resolve are all replaced wherever they stand, and console.warn is       *)
(* called once for each token that does not resolve.                       *)
(***************************************************************************)
C8_UnresolvedKept ==
    purePhase = "patched" =>
        /\ Len(patchOut.nodes) = Len(tplNodes)
        /\ Len(patchOut.warns) = CountUnresolved(tplNodes, recordMap)
        /\ patchOut.replaced = CountResolved(tplNodes, recordMap)
        /\ \A n \in 1..Len(tplNodes) :
              \A sp \in UnresolvedSpans(tplNodes[n], recordMap) :
                  LET d == ShiftAt(tplNodes[n], recordMap, sp[1])
                  IN  /\ sp[2] + d <= Len(patchOut.nodes[n])
                      /\ SubSeq(patchOut.nodes[n], sp[1] + d, sp[2] + d)
                            = SubSeq(tplNodes[n], sp[1], sp[2])
                      /\ \E w \in 1..Len(patchOut.warns) :
                            patchOut.warns[w] = Trim(SpanKey(tplNodes[n], sp))

\* an unresolved token with a resolved token after it in the same node
C8_Witness ==
    /\ purePhase = "patched"
    /\ \E n \in 1..Len(tplNodes) :
          /\ \E u \in UnresolvedSpans(tplNodes[n], recordMap) :
                \E r \in ResolvedSpans(tplNodes[n], recordMap) : u[2] < r[1]
          /\ patchOut.nodes[n] # tplNodes[n]
    /\ patchOut.replaced = 1
    /\ Len(patchOut.warns) = 1

(***************************************************************************)
(* C9.  A token cut into two w:t nodes.                                    *)
(* The claim as made: however the characters of the token are divided      *)
(* between the two nodes, both nodes' text is left unchanged.              *)
(***************************************************************************)
\* the two nodes are the two non-empty parts of one token
SplitToken ==
    /\ Len(tplNodes) = 2
    /\ tplNodes[1] # <<>>
    /\ tplNodes[2] # <<>>
    /\ IsTokenText(tplNodes[1] \o tplNodes[2], 1, Len(tplNodes[1]) + Len(tplNodes[2]))

HasChar(t, c) == \E q \in 1..Len(t) : t[q] = c

C9_SplitNeverResolved ==
    (purePhase = "patched" /\ SplitToken) => patchOut.nodes = tplNodes

(***************************************************************************)
(* C9 as amended.  When the cut leaves no closing brace in the first node  *)
(* and no opening brace in the second (it falls inside the key or between  *)
(* the key and a brace run), both nodes are left unchanged.  When the cut  *)
(* falls inside a run of two or more braces, the node that holds an        *)
(* opening brace, the key and a closing brace is a token by itself: it is  *)
(* resolved there if its key resolves, and the other node is unchanged.    *)
(***************************************************************************)
C9_SplitAmended ==
    (purePhase = "patched" /\ SplitToken) =>
        LET key == SelectSeq(tplNodes[1] \o tplNodes[2], NotBrace)
            v   == Resolve(key, recordMap)
        IN  /\ (~HasChar(tplNodes[1], CB) /\ ~HasChar(tplNodes[2], OB))
                  => patchOut.nodes = tplNodes
            /\ HasChar(tplNodes[1], CB)
                  => /\ patchOut.nodes[2] = tplNodes[2]
                     /\ patchOut.nodes[1] = IF v.found THEN v.val ELSE tplNodes[1]
            /\ HasChar(tplNodes[2], OB)
                  => /\ patchOut.nodes[1] = tplNodes[1]
                     /\ patchOut.nodes[2] = IF v.found THEN v.val ELSE tplNodes[2]

\* a token whose key resolves, cut inside its key zone, and left alone
C9_Witness ==
    /\ purePhase = "patched"
    /\ SplitToken
    /\ ~HasChar(tplNodes[1], CB)
    /\ ~HasChar(tplNodes[2], OB)
    /\ Resolve(SelectSeq(tplNodes[1] \o tplNodes[2], NotBrace), recordMap).found
    /\ patchOut.nodes = tplNodes

(***************************************************************************)
(* C10.  When no text node of the template holds a token, patching leaves  *)
(* the text of every node as it was, whatever the record map; nothing is   *)
(* replaced and nothing is reported.                                       *)
(***************************************************************************)
C10_NoTokenNoChange ==
    (purePhase = "patched" /\ \A n \in 1..Len(tplNodes) : TokenSpans(tplNodes[n]) = {})
        => /\ patchOut.nodes = tplNodes
           /\ patchOut.replaced = 0
           /\ patchOut.warns = <<>>

\* a template without tokens that still holds braces and a key of the map
C10_Witness ==
    /\ purePhase = "patched"
    /\ \A n \in 1..Len(tplNodes) : TokenSpans(tplNodes[n]) = {}
    /\ \E n \in 1..Len(tplNodes) :
          /\ HasChar(tplNodes[n], OB)
          /\ HasChar(tplNodes[n], CB)
          /\ HasChar(tplNodes[n], "a")
    /\ patchOut.nodes = tplNodes

(***************************************************************************)
(* C11.  Whatever the field value, formatCellValue returns a string; for   *)
(* null and for undefined it returns the empty string.                     *)
(***************************************************************************)
C11_AlwaysString ==
    purePhase = "formatted" =>
        /\ formatted.kind = "string"
        /\ cellVal.kind \in {"null", "undefined"} => formatted = StrVal(<<>>)

(***************************************************************************)
(* C12.  The number 946684800000 is formatted as a date-time text, and the *)
(* number 946684799999 as its digits.                                      *)
(***************************************************************************)
C12_Year2000Boundary ==
    purePhase = "formatted" =>
        /\ cellVal = NumVal(Year2000) => formatted = StrVal(DateString(Year2000))
        /\ cellVal = NumVal(Below2000) => formatted = StrVal(Below2000)

(***************************************************************************)
(* C18.  For a list of strings and objects, whatever its length,           *)
(* formatCellValue returns the renderings of the elements joined with      *)
(* ", ": a string is rendered as itself, an object as its name, else its   *)
(* text, else its fullAddress, else its JSON dump.                         *)
(***************************************************************************)
Rendering(item) ==
    IF item.kind = "string" THEN item.str
    ELSE IF Truthy(item.name) THEN StringOf(item.name)
    ELSE IF Truthy(item.text) THEN StringOf(item.text)
    ELSE IF Truthy(item.fullAddress) THEN StringOf(item.fullAddress)
    ELSE JsonDump

RECURSIVE JoinedRenderings(_)
JoinedRenderings(items) ==
    IF items = <<>> THEN <<>>
    ELSE IF Len(items) = 1 THEN Rendering(items[1])
    ELSE Rendering(items[1]) \o <<",", SP>> \o JoinedRenderings(Tail(items))

C18_ListJoinsRenderings ==
    ( /\ purePhase = "formatted"
      /\ cellVal.kind = "list"
      /\ \A i \in 1..Len(cellVal.items) : cellVal.items[i].kind \in {"string", "object"} )
        => formatted = StrVal(JoinedRenderings(cellVal.items))

(***************************************************************************)
(* C13.  Two stored writes in a row to the same field of the record, the   *)
(* read before each having given the field's list.                         *)
(* The claim as made: after the second the field holds two entries more    *)
(* than before the first, the last two carrying the two tokens issued.     *)
(***************************************************************************)
ItemsOf(v) == IF v.kind = "list" THEN v.items ELSE <<>>

\* writes i and i + 1 are to the same field and each read gave the list
TwoPersists(i) ==
    /\ i + 1 <= Len(persisted)
    /\ persisted[i].field = persisted[i + 1].field
    /\ persisted[i].read = CurrentList(persisted[i].before)
    /\ persisted[i + 1].read = CurrentList(persisted[i + 1].before)

C13_TwoMoreEntries ==
    \A i \in 1..Len(persisted) :
        TwoPersists(i) =>
            LET b == ItemsOf(persisted[i].before)
                a == ItemsOf(persisted[i + 1].after)
            IN  /\ Len(a) = Len(b) + 2
                /\ a[Len(a) - 1].token = persisted[i].token
                /\ a[Len(a)].token = persisted[i + 1].token
                /\ persisted[i].token # persisted[i + 1].token

(***************************************************************************)
(* C13 as amended.  After the second write the field holds the entries it  *)
(* held before the first that carry a token (entries without one are       *)
(* dropped by the first call), in their order, followed by the reference   *)
(* of the first call and then that of the second, with different tokens.   *)
(***************************************************************************)
C13_TwoAppended ==
    \A i \in 1..Len(persisted) :
        TwoPersists(i) =>
            /\ persisted[i + 1].before = persisted[i].after
            /\ persisted[i].token # persisted[i + 1].token
            /\ ItemsOf(persisted[i + 1].after)
                  = SelectSeq(ItemsOf(persisted[i].before), KeepsItem)
                    \o <<Attachment(persisted[i].token, FileName),
                         Attachment(persisted[i + 1].token, FileName)>>

\* two runs on a field that held an entry without a token and a reference
C13_Witness ==
    /\ Len(persisted) >= 2
    /\ TwoPersists(1)
    /\ persisted[1].before = ListVal(<<NoTokenItem, OldAtt>>)
    /\ Len(ItemsOf(store[persisted[1].field])) = 3
    /\ store[persisted[1].field] = persisted[2].after

(***************************************************************************)
(* C14.  A run that has stopped without having built the PDF has shown an  *)
(* error notification.                                                     *)
(***************************************************************************)
RunStopped == InRun /\ pc \in {"done", "abandoned"}

C14_FailureNotified ==
    (RunStopped /\ pdf = 0) => \E t \in toasts : t.level = "error"

(***************************************************************************)
(* C15.  Once a step of the run has failed (a notification of an error, or *)
(* the console.warn of a rejected read), the run has ended with an error   *)
(* notification and has made no host call after the failure.               *)
(***************************************************************************)
C15_FailureAborts ==
    /\ (InRun /\ \E t \in toasts : t.level = "error") => pc = "done"
    /\ \A i \in CallIndexes("console.warn") :
          /\ i = Len(calls)
          /\ pc = "done"
          /\ \E t \in toasts : t.level = "error"

(***************************************************************************)
(* C16.  When the trimmed key is not a key of the record map, resolution   *)
(* returns the value of the first key of the map, in iteration order,      *)
(* whose normalized form (characters other than ASCII letters, digits and  *)
(* CJK ideographs removed, lower-cased) equals that of the trimmed key,    *)
(* and nothing when there is no such key.                                  *)
(***************************************************************************)
SameNormalForm(i) == normalize(recordMap[i].key) = normalize(Trim(rawKey))

NoExactKey == \A i \in 1..Len(recordMap) : recordMap[i].key # Trim(rawKey)

C16_FirstFuzzyKeyWins ==
    (purePhase = "resolved" /\ NoExactKey) =>
        IF \E i \in 1..Len(recordMap) : SameNormalForm(i)
        THEN \E i \in 1..Len(recordMap) :
                /\ SameNormalForm(i)
                /\ \A j \in 1..(i - 1) : ~SameNormalForm(j)
                /\ resolved = Found(recordMap[i].val)
        ELSE resolved = Undefined

(***************************************************************************)
(* C17.  In the patched text of a node each token whose key resolves has   *)
(* given way, from its first opening brace to its last closing brace, to   *)
(* the resolved string, and every character outside those tokens is where  *)
(* the replacements before it leave it; the text of a node depends on no   *)
(* other node.                                                             *)
(***************************************************************************)
InResolvedSpan(t, rd, q) == \E sp \in ResolvedSpans(t, rd) : sp[1] <= q /\ q <= sp[2]

SpliceOf(t, rd, out) ==
    /\ Len(out) = Len(t) + ShiftAt(t, rd, Len(t) + 1)
    /\ \A sp \in ResolvedSpans(t, rd) :
          LET d == ShiftAt(t, rd, sp[1])
              v == Resolve(SpanKey(t, sp), rd).val
          IN  SubSeq(out, sp[1] + d, sp[1] + d + Len(v) - 1) = v
    /\ \A q \in 1..Len(t) :
          ~InResolvedSpan(t, rd, q) => out[q + ShiftAt(t, rd, q)] = t[q]

C17_ExactSpanReplaced ==
    purePhase = "patched" =>
        /\ Len(patchOut.nodes) = Len(tplNodes)
        /\ \A n \in 1..Len(tplNodes) : SpliceOf(tplNodes[n], recordMap, patchOut.nodes[n])

\* a token with a run of two braces on a side and text beside it in its
\* node, and another node that holds text
C17_Witness ==
    /\ purePhase = "patched"
    /\ Len(tplNodes) = 2
    /\ \E n \in 1..2 :
          /\ tplNodes[3 - n] # <<>>
          /\ patchOut.nodes[3 - n] = tplNodes[3 - n]
          /\ \E sp \in ResolvedSpans(tplNodes[n], recordMap) :
                /\ sp[2] - sp[1] + 1 > Len(SpanKey(tplNodes[n], sp)) + 2
                /\ sp[2] - sp[1] + 1 < Len(tplNodes[n])
          /\ patchOut.nodes[n] # tplNodes[n]

(***************************************************************************)
(* C19.  The host calls of a run are made one after the other in the order *)
(* of the stages: getSelection; for each field in turn getName and then    *)
(* getCellValue; after the patch, the rendering, the settle delay, the     *)
(* rasterization and the PDF: batchUploadFile, the read of the current     *)
(* list, setCellValue, the read that verifies.  While the run awaits a     *)
(* host call that call is the last one made, so no other is outstanding;   *)
(* while it patches, renders, waits or rasterizes none is.                 *)
(***************************************************************************)
AwaitedOp ==
    CASE pc = "getSelection"    -> "getSelection"
      [] pc = "getName"         -> "getName"
      [] pc \in {"getCellValue", "readCurrent", "verify"} -> "getCellValue"
      [] pc = "batchUploadFile" -> "batchUploadFile"
      [] pc = "setCellValue"    -> "setCellValue"
      [] OTHER -> "none"

Before(i, op) == \E k \in CallIndexes(op) : k < i

CallStage(i) ==
    CASE calls[i].op = "getSelection"    -> 1
      [] calls[i].op = "getName"         -> 2
      [] calls[i].op = "batchUploadFile" -> 3
      [] calls[i].op = "setCellValue"    -> 5
      [] calls[i].op = "console.warn"    -> IF Before(i, "batchUploadFile") THEN 4 ELSE 2
      [] OTHER -> IF IsLoopRead(i) THEN 2
                  ELSE IF Before(i, "setCellValue") THEN 6 ELSE 4

HostCallsAt(st) == {i \in 1..Len(calls) : CallStage(i) = st /\ calls[i].op # "console.warn"}

LoopDone ==
    /\ Cardinality(CallIndexes("getName")) = Len(snap.fields)
    /\ Cardinality({i \in CallIndexes("getCellValue") : IsLoopRead(i)}) = Len(snap.fields)
    /\ Len(recordData) <= Len(snap.fields)

Patched == patched = PatchNodes(snap.templateFile.nodes, recordData).nodes

C19_Sequential ==
    InRun =>
        /\ \A i \in 1..Len(calls) : \A j \in 1..Len(calls) :
              i < j => CallStage(i) <= CallStage(j)
        /\ \A st \in {1, 3, 4, 5, 6} : Cardinality(HostCallsAt(st)) <= 1
        /\ \A i \in CallIndexes("getName") :
              /\ calls[i].field = snap.fields[Cardinality(CallIndexes("getName") \cap 1..i)]
              /\ i > 2 => calls[i - 1].op \in {"getCellValue", "console.warn"}
        /\ AwaitedOp # "none" => LastCall.op = AwaitedOp
        /\ pc = "getSelection" => Len(calls) = 1
        /\ pc = "reading" => LoopDone /\ patched = <<>> /\ pdf = 0
        /\ pc \in {"renderAsync", "settle", "html2canvas"} =>
              /\ LoopDone /\ Patched /\ pdf = 0
              /\ CallIndexes("batchUploadFile") = {}
        /\ pc \in {"batchUploadFile", "readCurrent", "setCellValue", "settleVerify",
                   "verify"} =>
              /\ LoopDone /\ Patched /\ pdf # 0
              /\ CallIndexes("batchUploadFile") # {}
        /\ CallIndexes("batchUploadFile") # {} => pdf # 0

\* a run over three fields awaiting the read that verifies
C19_Witness ==
    /\ InRun
    /\ pc = "verify"
    /\ Len(snap.fields) = 3
    /\ Cardinality(CallIndexes("getCellValue")) = 5
    /\ CallIndexes("console.warn") # {}
    /\ patched # snap.templateFile.nodes

(***************************************************************************)
(* C20.  A run that has set loading to true sets it back to false,         *)
(* whatever the environment answers: the component never stays in the      *)
(* loading state forever.                                                  *)
(***************************************************************************)
C20_LoadingEnds == loading ~> ~loading

(***************************************************************************)
(* C21.  selectedAttachFieldId is empty or the id of one of the options of *)
(* attachmentFields, and a run calls setCellValue only on a field that is  *)
(* an attachment field of the table it writes to.                          *)
(***************************************************************************)
Listed(f, options) == \E i \in 1..Len(options) : options[i].value = f

C21_SelectedIsListed ==
    /\ selectedAttachFieldId = NoField \/ Listed(selectedAttachFieldId, attachmentFields)
    /\ InRun =>
          \A i \in CallIndexes("setCellValue") :
              /\ Listed(calls[i].field, snap.attachmentFields)
              /\ Listed(calls[i].field, AttachOptions(snap.table))

(***************************************************************************)
(* C22.  The table a run reads the field values from and writes the        *)
(* attachment to is the table of the record that getSelection returned at  *)
(* the start of the run.                                                   *)
(***************************************************************************)
C22_TableOfTheRecord ==
    (InRun /\ rec # NoRecord) => rec = RecordOf(snap.table)

(***************************************************************************)
(* C23.  Substitution is single-pass: a resolved value that itself holds   *)
(* text of the placeholder form stands verbatim in the patched node, at    *)
(* the place of its token, whether or not the key inside it is a key of    *)
(* the record map.                                                         *)
(***************************************************************************)
ValueOf(t, rd, sp) == Resolve(SpanKey(t, sp), rd).val

C23_SinglePass ==
    purePhase = "patched" =>
        \A n \in 1..Len(tplNodes) :
            \A sp \in ResolvedSpans(tplNodes[n], recordMap) :
                LET v == ValueOf(tplNodes[n], recordMap, sp)
                    d == ShiftAt(tplNodes[n], recordMap, sp[1])
                IN  TokenSpans(v) # {} =>
                        /\ sp[1] + d + Len(v) - 1 <= Len(patchOut.nodes[n])
                        /\ SubSeq(patchOut.nodes[n], sp[1] + d, sp[1] + d + Len(v) - 1) = v

\* a token whose value holds a token that the record map resolves too, with
\* text before it in the node
C23_Witness ==
    /\ purePhase = "patched"
    /\ \E n \in 1..Len(tplNodes) :
          \E sp \in ResolvedSpans(tplNodes[n], recordMap) :
              LET v == ValueOf(tplNodes[n], recordMap, sp)
              IN  /\ sp[1] > 1
                  /\ ResolvedSpans(v, recordMap) # {}
                  /\ ReplaceFrom(v, 1, recordMap).text # v
                  /\ patchOut.replaced = 1

(***************************************************************************)
(* C24.  A token whose trimmed key has an empty normalized form (no ASCII  *)
(* letter, ASCII digit or CJK ideograph) and is not itself a key of the    *)
(* record map is never resolved.                                           *)
(***************************************************************************)
C24_EmptyNormalNeverFuzzy ==
    (/\ purePhase = "resolved"
     /\ normalize(Trim(rawKey)) = <<>>
     /\ \A i \in 1..Len(recordMap) : recordMap[i].key # Trim(rawKey))
    => ~resolved.found

====
